---- MODULE Spec2Model ----
(***************************************************************************)
(* A model of smart_doc_ocr: the regex-driven LayoutParser                 *)
(* (app/layout_parser/layout_parser.py), the ImagePreprocessor resize      *)
(* (app/preprocess/image_preprocessor.py) and the /extract request         *)
(* handler with the receipt schema (app/main.py).                          *)
(*                                                                         *)
(* Text is a sequence of one-character strings.  A regular expression is   *)
(* a sequence of atoms (a character class with a repetition range, greedy  *)
(* or lazy, inside capture group grp or outside any group when grp = 0)    *)
(* matched by backtracking in the priority order of Python's re module.    *)
(***************************************************************************)
EXTENDS Integers, Sequences, FiniteSets, TLC

\* ------------------------------------------------------------------ text

Upper == <<"A","B","C","D","E","F","G","H","I","J","K","L","M",
           "N","O","P","Q","R","S","T","U","V","W","X","Y","Z">>
Lowers == <<"a","b","c","d","e","f","g","h","i","j","k","l","m",
            "n","o","p","q","r","s","t","u","v","w","x","y","z">>

\* re.IGNORECASE: characters are compared after case folding.
Lower(c) ==
    IF \E i \in DOMAIN Upper : Upper[i] = c
    THEN Lowers[CHOOSE i \in DOMAIN Upper : Upper[i] = c]
    ELSE c

Digit == {"0","1","2","3","4","5","6","7","8","9"}
Space == {" ", "\t", "\n", "\r"}
Letter == {Lowers[i] : i \in DOMAIN Lowers}
\* "." without re.DOTALL: every character but the line break.
Printable == Digit \cup Letter \cup
             {" ", "\t", "\r", "#", ":", "-", "/", "$", ",", ".", "_"}

\* str.strip(): leading and trailing whitespace removed.
RECURSIVE LStrip(_)
LStrip(s) == IF s # <<>> /\ Head(s) \in Space THEN LStrip(Tail(s)) ELSE s

RECURSIVE RStrip(_)
RStrip(s) ==
    IF s # <<>> /\ s[Len(s)] \in Space THEN RStrip(SubSeq(s, 1, Len(s) - 1)) ELSE s

Strip(s) == RStrip(LStrip(s))

\* str.replace(old, ''): every occurrence of the character old removed.
Remove(s, old) == SelectSeq(s, LAMBDA c : c # old)

\* ----------------------------------------------------------------- regex

\* An atom is a literal word (word # <<>>) or a character class repeated
\* min..max times (max = -1: no limit), greedy or lazy, inside capture group
\* grp (0: outside any group); opt marks a group that may take no part.
Atom(cls, lo, hi, lazy, grp, opt) ==
    [cls |-> cls, min |-> lo, max |-> hi, lazy |-> lazy, grp |-> grp, opt |-> opt,
     word |-> <<>>]

Lit(c)            == Atom({Lower(c)}, 1, 1, FALSE, 0, FALSE)
One(cls, g)       == Atom(cls, 1, 1, FALSE, g, FALSE)
Star(cls, g)      == Atom(cls, 0, -1, FALSE, g, FALSE)
Plus(cls, g)      == Atom(cls, 1, -1, FALSE, g, FALSE)
Opt(cls, g)       == Atom(cls, 0, 1, FALSE, g, FALSE)
Rep(cls, lo, hi, g) == Atom(cls, lo, hi, FALSE, g, FALSE)
LazyStar(cls, g)  == Atom(cls, 0, -1, TRUE, g, FALSE)
\* (cls+)? : a group that may take no part in the match.
OptGroup(cls, g)  == Atom(cls, 1, -1, FALSE, g, TRUE)

\* Literal text, as the one-atom sequence of its case-folded word.
Lits(s) ==
    << [cls |-> {}, min |-> 1, max |-> 1, lazy |-> FALSE, grp |-> 0, opt |-> FALSE,
        word |-> [i \in 1..Len(s) |-> Lower(s[i])]] >>

Rule(atoms, n) == [atoms |-> atoms, ngroups |-> n]

NoGroup == [some |-> FALSE, val |-> <<>>]
NoMatch == [ok |-> FALSE, caps |-> <<>>]

Least(S)    == CHOOSE n \in S : \A m \in S : n <= m
Greatest(S) == CHOOSE n \in S : \A m \in S : n >= m

\* The number of consecutive characters of text from offset pos that are in
\* cls, at most cap (cap = -1: no limit).
Run(text, pos, cls, cap) ==
    LET left  == Len(text) - pos
        limit == IF cap = -1 \/ cap > left THEN left ELSE cap
    IN  CHOOSE n \in 0..limit :
            /\ \A j \in 1..n : Lower(text[pos + j]) \in cls
            /\ n = limit \/ Lower(text[pos + n + 1]) \notin cls

WordAt(text, pos, word) ==
    /\ pos + Len(word) <= Len(text)
    /\ \A j \in 1..Len(word) : Lower(text[pos + j]) = word[j]

Capture(caps, g, span) ==
    IF g = 0 THEN caps
    ELSE [caps EXCEPT ![g] = [some |-> TRUE, val |-> caps[g].val \o span]]

\* MatchAt: the first match, in backtracking order, of atoms k.. at offset
\* pos.  Of the repetition counts with which the rest matches, a greedy atom
\* takes the greatest and a lazy one the least; an optional group is left
\* out when no count does.
RECURSIVE MatchAt(_, _, _, _, _)
MatchAt(atoms, k, text, pos, caps) ==
    IF k > Len(atoms) THEN [ok |-> TRUE, caps |-> caps]
    ELSE LET a == atoms[k]
         IN  IF a.word # <<>>
             THEN IF WordAt(text, pos, a.word)
                  THEN MatchAt(atoms, k + 1, text, pos + Len(a.word), caps)
                  ELSE NoMatch
             ELSE LET hi == Run(text, pos, a.cls, a.max)
                      With(n) ==
                          MatchAt(atoms, k + 1, text, pos + n,
                                  Capture(caps, a.grp, SubSeq(text, pos + 1, pos + n)))
                      good == {n \in a.min..hi : With(n).ok}
                  IN  IF good # {}
                      THEN With(IF a.lazy THEN Least(good) ELSE Greatest(good))
                      ELSE IF a.opt THEN MatchAt(atoms, k + 1, text, pos, caps)
                      ELSE NoMatch

\* re.search(pattern, text, re.IGNORECASE): the match at the leftmost offset.
Search(rule, text) ==
    LET At(start) ==
            MatchAt(rule.atoms, 1, text, start, [g \in 1..rule.ngroups |-> NoGroup])
        starts == {start \in 0..Len(text) : At(start).ok}
    IN  IF starts = {} THEN NoMatch ELSE At(Least(starts))

\* ---------------------------------------------------------------- values

\* Optional[str] and a raised exception, as records of one shape.
NoneValue   == [kind |-> "None", val |-> <<>>]
Str(s)      == [kind |-> "str", val |-> s]
Raised(exc) == [kind |-> exc, val |-> <<>>]
IsRaised(v) == v.kind \in {"AttributeError", "IndexError", "RuntimeError"}

\* ----------------------------------------------------------- LayoutParser

\* Mutant of MatchValue: whitespace trimmed before the commas are removed.
MatchValueStripFirst(rule, m) ==
    IF rule.ngroups = 2
    THEN IF ~m.caps[1].some \/ ~m.caps[2].some
         THEN Raised("AttributeError")
         ELSE Str(Remove(Strip(m.caps[1].val), ",") \o <<".">> \o Strip(m.caps[2].val))
    ELSE IF rule.ngroups = 0 THEN Raised("IndexError")
    ELSE IF ~m.caps[1].some THEN Raised("AttributeError")
    ELSE Str(Strip(m.caps[1].val))

\* The value of a match: lines 72-74.  match.group(i) of a group that took no
\* part in the match is None, and None.replace / None.strip raise
\* AttributeError; match.group(1) of a pattern without groups raises IndexError.
MatchValue(rule, m) ==
    IF rule.ngroups = 2
    THEN IF ~m.caps[1].some \/ ~m.caps[2].some
         THEN Raised("AttributeError")
         ELSE Str(Strip(Remove(m.caps[1].val, ",")) \o <<".">> \o Strip(m.caps[2].val))
    ELSE IF rule.ngroups = 0 THEN Raised("IndexError")
    ELSE IF ~m.caps[1].some THEN Raised("AttributeError")
    ELSE Str(Strip(m.caps[1].val))

\* Mutant of ExtractFrom: the last rule that matches wins.
RECURSIVE ExtractFromLast(_, _, _)
ExtractFromLast(text, patterns, i) ==
    IF i > Len(patterns) THEN NoneValue
    ELSE LET later == ExtractFromLast(text, patterns, i + 1)
             m == Search(patterns[i], text)
         IN  IF later # NoneValue THEN later
             ELSE IF m.ok THEN MatchValue(patterns[i], m) ELSE NoneValue

\* Mutant of ExtractFrom: an empty string when no rule matches.
RECURSIVE ExtractFromEmpty(_, _, _)
ExtractFromEmpty(text, patterns, i) ==
    IF i > Len(patterns) THEN Str(<<>>)
    ELSE LET m == Search(patterns[i], text)
         IN  IF m.ok THEN MatchValue(patterns[i], m)
             ELSE ExtractFromEmpty(text, patterns, i + 1)

\* _extract_by_patterns, lines 69-75, from the i-th pattern on.
RECURSIVE ExtractFrom(_, _, _)
ExtractFrom(text, patterns, i) ==
    IF i > Len(patterns) THEN NoneValue
    ELSE LET m == Search(patterns[i], text)
         IN  IF m.ok THEN MatchValue(patterns[i], m)
             ELSE ExtractFrom(text, patterns, i + 1)

extract_by_patterns(text, patterns) == ExtractFrom(text, patterns, 1)

\* A dict is modelled in insertion order: a sequence of [name, patterns].
Keys(fp) == {fp[i].name : i \in DOMAIN fp}
Index(fp, name) == CHOOSE i \in DOMAIN fp : fp[i].name = name
Get(fp, name) == fp[Index(fp, name)].patterns

\* self.field_patterns[field_name] = patterns
SetItem(fp, name, patterns) ==
    IF name \in Keys(fp)
    THEN [fp EXCEPT ![Index(fp, name)].patterns = patterns]
    ELSE Append(fp, [name |-> name, patterns |-> patterns])

\* Mutant of Put: a field that was not found is left out of the map.
PutFound(results, name, value) ==
    IF value = NoneValue THEN results
    ELSE [n \in DOMAIN results \cup {name} |-> IF n = name THEN value ELSE results[n]]

\* results[field_name] = value
Put(results, name, value) ==
    [n \in DOMAIN results \cup {name} |-> IF n = name THEN value ELSE results[n]]

EmptyDict == [n \in {} |-> NoneValue]

\* extract_fields run without interruption: the loop of lines 52-56 from the
\* i-th item on.  An exception raised for a field leaves the call.
RECURSIVE ExtractLoop(_, _, _, _)
ExtractLoop(fp, text, i, results) ==
    IF i > Len(fp) THEN [kind |-> "dict", val |-> results]
    ELSE LET value == extract_by_patterns(text, fp[i].patterns)
         IN  IF IsRaised(value) THEN [kind |-> value.kind, val |-> EmptyDict]
             ELSE ExtractLoop(fp, text, i + 1, Put(results, fp[i].name, value))

extract_fields(fp, text) == ExtractLoop(fp, text, 1, EmptyDict)

\* ------------------------------------------------- the shipped rule lists

DigitComma == Digit \cup {","}
DateSep    == {"-", "/"}
ColonDash  == {":", "-"}
IdChar     == Letter \cup Digit \cup {"-"}

\* \s*[:\-]?\s*\$?\s*([\d,]+)\s*[.,]\s*(\d{2})
AmountTwoGroups ==
    << Star(Space, 0), Opt(ColonDash, 0), Star(Space, 0), Opt({"$"}, 0),
       Star(Space, 0), Plus(DigitComma, 1), Star(Space, 0), One({".", ","}, 0),
       Star(Space, 0), Rep(Digit, 2, 2, 2) >>

\* [:\-]?\s*\$?([\d,]+\.\d{2})
AmountOneGroup ==
    << Opt(ColonDash, 0), Star(Space, 0), Opt({"$"}, 0),
       Plus(DigitComma, 1), One({"."}, 1), Rep(Digit, 2, 2, 1) >>

\* receipt_patterns of main.py, in the shipped order.
receipt_patterns ==
    << [name |-> "id", patterns |-> <<
          Rule(<<Lit("#"), Plus(Digit, 1)>>, 1),
          Rule(Lits(<<"R","e","c","e","i","p","t">>)
               \o <<Star(Space, 0), Opt(ColonDash, 0), Star(Space, 0),
                    Opt({"#"}, 0), Plus(Digit, 1)>>, 1) >>],
       [name |-> "date", patterns |-> <<
          Rule(<<Rep(Digit, 1, 2, 1), One(DateSep, 1), Rep(Digit, 1, 2, 1),
                 One(DateSep, 1), Rep(Digit, 2, 4, 1)>>, 1),
          Rule(<<Rep(Digit, 4, 4, 1), One(DateSep, 1), Rep(Digit, 1, 2, 1),
                 One(DateSep, 1), Rep(Digit, 1, 2, 1)>>, 1) >>],
       [name |-> "total", patterns |-> <<
          Rule(Lits(<<"T","O","T","A","L">>) \o AmountTwoGroups, 2),
          Rule(Lits(<<"t","o","t","a","l">>) \o AmountTwoGroups, 2),
          Rule(Lits(<<"T","o","t","a","l">>) \o <<Star(Space, 0)>>
               \o Lits(<<"A","m","o","u","n","t">>) \o AmountTwoGroups, 2),
          Rule(Lits(<<"T","o","t","a","l">>)
               \o <<LazyStar(Printable, 0), Opt({"$"}, 0), Star(Space, 0),
                    Plus(DigitComma, 1), One({".", ","}, 0), Star(Space, 0),
                    Rep(Digit, 2, 2, 2)>>, 2) >>],
       [name |-> "change", patterns |-> <<
          Rule(Lits(<<"C","h","a","n","g","e">>) \o <<Star(Space, 0)>>
               \o Lits(<<"D","u","e">>) \o <<Star(Space, 0)>> \o AmountOneGroup, 1),
          Rule(Lits(<<"C","h","a","n","g","e">>) \o <<Star(Space, 0)>>
               \o AmountOneGroup, 1),
          Rule(Lits(<<"c","h","a","n","g","e">>) \o <<Star(Space, 0)>>
               \o AmountOneGroup, 1) >>] >>

\* The default field_patterns of LayoutParser.__init__.
default_patterns ==
    << [name |-> "invoice_number", patterns |-> <<
          Rule(Lits(<<"I","n","v","o","i","c","e">>) \o <<Star(Space, 0)>>
               \o Lits(<<"N","o">>)
               \o <<Opt(ColonDash, 0), Star(Space, 0), Plus(IdChar, 1)>>, 1),
          Rule(Lits(<<"I","n","v">>) \o <<Star(Space, 0), Lit("#"),
                    Opt(ColonDash, 0), Star(Space, 0), Plus(IdChar, 1)>>, 1) >>],
       [name |-> "date", patterns |-> <<
          Rule(Lits(<<"D","a","t","e">>)
               \o <<Opt(ColonDash, 0), Star(Space, 0),
                    Rep(Digit, 1, 2, 1), One(DateSep, 1), Rep(Digit, 1, 2, 1),
                    One(DateSep, 1), Rep(Digit, 2, 4, 1)>>, 1),
          Rule(<<Rep(Digit, 2, 4, 1), One(DateSep, 1), Rep(Digit, 1, 2, 1),
                 One(DateSep, 1), Rep(Digit, 1, 4, 1)>>, 1) >>],
       [name |-> "total", patterns |-> <<
          Rule(Lits(<<"T","o","t","a","l">>) \o <<Star(Space, 0)>>
               \o Lits(<<"A","m","o","u","n","t">>) \o AmountOneGroup, 1),
          Rule(Lits(<<"G","r","a","n","d">>) \o <<Star(Space, 0)>>
               \o Lits(<<"T","o","t","a","l">>) \o AmountOneGroup, 1),
          Rule(Lits(<<"T","o","t","a","l">>) \o AmountOneGroup, 1) >>] >>

\* LayoutParser.__init__: an empty (falsy) argument selects the defaults.
LayoutParser(arg) == IF arg = <<>> THEN default_patterns ELSE arg

\* ------------------------------------------------------ ImagePreprocessor

\* Python's float is the IEEE double: 53 significant bits, round to nearest,
\* ties to even.  A positive float is [m, e]: the bits m (most significant
\* first, the first one 1, at most 53 of them) scaled by 2^e.  The operands
\* are ints below 2^22, so that every intermediate fits the model's integers;
\* bits are produced eight at a time.
MantissaBits == 53

RECURSIVE Pow2(_)
Pow2(k) ==
    IF k = 0 THEN 1
    ELSE LET half == Pow2(k \div 2)
         IN  IF k % 2 = 1 THEN 2 * half * half ELSE half * half

\* The n low bits of q, most significant first.
BitsOf(q, n) == [i \in 1..n |-> (q \div Pow2(n - i)) % 2]

\* The number of bits of n.
BitLen(n) == CHOOSE k \in 0..30 : Pow2(k) > n /\ (k = 0 \/ Pow2(k - 1) <= n)

Bits(n) == BitsOf(n, BitLen(n))

RECURSIVE IntOf(_)
IntOf(bits) ==
    IF bits = <<>> THEN 0
    ELSE IF Len(bits) = 1 THEN bits[1]
    ELSE LET half == Len(bits) \div 2
         IN  IntOf(SubSeq(bits, 1, half)) * Pow2(Len(bits) - half)
               + IntOf(SubSeq(bits, half + 1, Len(bits)))

RECURSIVE Incr(_)
Incr(bits) ==
    IF bits = <<>> THEN <<1>>
    ELSE IF bits[Len(bits)] = 0 THEN [bits EXCEPT ![Len(bits)] = 1]
    ELSE Append(Incr(SubSeq(bits, 1, Len(bits) - 1)), 0)

\* bits * 2^e (and more below the last bit when sticky) rounded to a float.
RoundFloat(bits, sticky, e) ==
    IF Len(bits) <= MantissaBits THEN [m |-> bits, e |-> e]
    ELSE LET keep  == SubSeq(bits, 1, MantissaBits)
             drop  == Len(bits) - MantissaBits
             guard == bits[MantissaBits + 1]
             rest  == sticky \/ \E i \in (MantissaBits + 2)..Len(bits) : bits[i] = 1
             up    == guard = 1 /\ (rest \/ keep[MantissaBits] = 1)
             m     == IF up THEN Incr(keep) ELSE keep
         IN  IF Len(m) > MantissaBits
             THEN [m |-> SubSeq(m, 1, MantissaBits), e |-> e + drop + 1]
             ELSE [m |-> m, e |-> e + drop]

\* The next n bits of the quotient rem / den (rem < den), and what remains.
RECURSIVE DivBits(_, _, _)
DivBits(rem, den, n) ==
    IF n = 0 THEN [bits |-> <<>>, rem |-> rem]
    ELSE LET c == IF n >= 8 THEN 8 ELSE n
             scaled == rem * Pow2(c)
             rest == DivBits(scaled % den, den, n - c)
         IN  [bits |-> BitsOf(scaled \div den, c) \o rest.bits, rem |-> rest.rem]

\* The k with den * 2^k <= num < den * 2^(k+1), as [num, den, k] scaled so
\* that den <= num < 2 * den.
RECURSIVE Normalize(_, _, _)
Normalize(num, den, k) ==
    IF num < den THEN Normalize(2 * num, den, k - 1)
    ELSE IF num >= 2 * den THEN Normalize(num, 2 * den, k + 1)
    ELSE [num |-> num, den |-> den, k |-> k]

\* a / b for positive ints a and b: the float nearest to the quotient.
TrueDiv(a, b) ==
    LET n == Normalize(a, b, 0)
        q == DivBits(n.num - n.den, n.den, MantissaBits)
    IN  RoundFloat(<<1>> \o q.bits, q.rem > 0, n.k - MantissaBits)

\* The bits of h times the number whose bits are m, plus carry.
RECURSIVE MulBits(_, _, _)
MulBits(m, h, carry) ==
    IF Len(m) <= 8 THEN Bits(h * IntOf(m) + carry)
    ELSE LET t == h * IntOf(SubSeq(m, Len(m) - 7, Len(m))) + carry
             low == BitsOf(t % 256, 8)
         IN  MulBits(SubSeq(m, 1, Len(m) - 8), h, t \div 256) \o low

\* h * x for a positive int h and a float x: the float nearest to the product.
Mul(h, x) == RoundFloat(MulBits(x.m, h, 0), FALSE, x.e)

\* int(x): the float truncated toward zero.
Trunc(x) ==
    IF x.e >= 0 THEN IntOf(x.m) * Pow2(x.e)
    ELSE IF -x.e >= Len(x.m) THEN 0
    ELSE IntOf(SubSeq(x.m, 1, Len(x.m) + x.e))

\* Lines 89-90: ratio = width / w; new_height = int(h * ratio)
NewHeight(h, w, width) == Trunc(Mul(h, TrueDiv(width, w)))

\* _resize, lines 77-91.  cv2.resize to (width, new_height) gives an image of
\* that size, and rejects an empty size (new_height = 0) with cv2.error.
Resize(image, width) ==
    LET new_height == NewHeight(image.h, image.w, width)
    IN  IF new_height = 0
        THEN [kind |-> "cv2.error", w |-> 0, h |-> 0]
        ELSE [kind |-> "image", w |-> width, h |-> new_height]

\* ------------------------------------------------------- bounds and inputs

MaxLen    == 1    \* every text over Alphabet up to this length is an input
MaxFields == 2    \* fields a schema grows to by add_field

Alphabet == {"t", "1", ",", " "}

RECURSIVE SeqsUpTo(_, _)
SeqsUpTo(S, n) ==
    IF n = 0 THEN {<<>>}
    ELSE LET shorter == SeqsUpTo(S, n - 1)
         IN  shorter \cup {Append(s, c) : s \in shorter, c \in S}

\* Longer texts that exercise trimming, separators, letter case and order.
SampleTexts ==
    { <<"t","1">>,
      <<"T"," ","1",","," ","t"," ","1">>,
      <<"1",",","2","3","4","t","5","6">>,
      <<" ",","," ","1"," ","t"," "," ","1"," ">>,
      <<"t"," "," ","1","1",",">>,
      <<",","t",",","1","T","1","1">>,
      <<"1"," ",",","t">> }

Texts == SeqsUpTo(Alphabet, MaxLen) \cup SampleTexts

NumChar == Digit \cup {",", " "}

\* t(\s*[\d,]+) : one group, which may begin with whitespace
RuleOne   == Rule(<<Lit("t"), Star(Space, 1), Plus(DigitComma, 1)>>, 1)
\* ([\d, ]+)t(\s*\d*) : two groups, integer and fractional part
RuleTwo   == Rule(<<Plus(NumChar, 1), Lit("t"), Star(Space, 2), Star(Digit, 2)>>, 2)
\* t\d* : no group
RuleZero  == Rule(<<Lit("t"), Star(Digit, 0)>>, 0)
\* (t)(\d*)(,?) : three groups
RuleThree == Rule(<<One({"t"}, 1), Star(Digit, 2), Opt({","}, 3)>>, 3)
\* t(\d+)? : one group, optional
RuleOpt   == Rule(<<Lit("t"), OptGroup(Digit, 1)>>, 1)

RulePool == {RuleOne, RuleTwo, RuleZero, RuleThree, RuleOpt}
\* The rule lists given to add_field: none, one or two rules of the pool.
RuleLists == {<<>>} \cup {<<r>> : r \in RulePool} \cup {<<r, q>> : r, q \in RulePool}
Names == {"f", "total"}

\* Arguments of LayoutParser(...): none (the defaults) or a one-field schema.
CtorArgs == {<<>>} \cup {<<[name |-> "f", patterns |-> l]>> : l \in RuleLists}

\* ---------------------------------------------------------------- state

VARIABLES
    field_patterns,   \* LayoutParser.field_patterns
    text,             \* the argument of the extract_fields call, running or completed
    results,          \* what the completed call returned or raised (idle: none)
    reader,           \* locals of an extract_fields call run step by step
    history,          \* per field, the rule lists the schema held during that call
    preprocessor,     \* an ImagePreprocessor, its input image and its output
    request           \* the /extract request being served

vars == <<field_patterns, text, results, reader, history, preprocessor, request>>

NotCalled == [kind |-> "idle", val |-> EmptyDict]

NoReader ==
    [pc |-> "idle", used |-> 0, pos |-> 0, name |-> "", patterns |-> <<>>,
     i |-> 0, partial |-> EmptyDict, tried |-> <<>>]
NoHistory == [versions |-> <<>>, observed |-> <<>>, adds |-> 0]
NoImage == [kind |-> "none", w |-> 0, h |-> 0]
NoPreprocessor == [resize_width |-> 0, input |-> NoImage, output |-> NoImage]
NoRequest ==
    [pc |-> "idle", pdf |-> FALSE, image |-> NoImage, status |-> 0,
     exc |-> "", invoked |-> {}]

Init ==
    /\ field_patterns \in {LayoutParser(arg) : arg \in CtorArgs}
    /\ text = <<>>
    /\ results = NotCalled
    /\ reader = NoReader
    /\ history = NoHistory
    /\ preprocessor = NoPreprocessor
    /\ request = NoRequest

\* add_field(field_name, patterns), lines 77-85
add_field(name, patterns) ==
    /\ name \in Keys(field_patterns) \/ Len(field_patterns) < MaxFields
    /\ field_patterns' = SetItem(field_patterns, name, patterns)

\* A call of add_field between calls of extract_fields; it returns nothing.
AddField ==
    \E name \in Names, patterns \in RuleLists :
        /\ add_field(name, patterns)
        /\ text' = <<>>
        /\ results' = NotCalled
        /\ UNCHANGED <<reader, history, preprocessor, request>>

\* extract_fields(text), lines 42-56, run without interruption
ExtractFields ==
    \E t \in Texts :
        /\ text' = t
        /\ results' = extract_fields(field_patterns, t)
        /\ UNCHANGED <<field_patterns, reader, history, preprocessor, request>>

Next == AddField \/ ExtractFields

Spec == Init /\ [][Next]_vars

\* ------------------------------- extract_fields with concurrent add_field

MaxAdds == 2    \* add_field calls that run during one extract_fields call

ConcRules == {RuleOne, RuleTwo}
ConcLists == {<<>>} \cup {<<r>> : r \in ConcRules} \cup {<<r, q>> : r, q \in ConcRules}
ConcTexts == { <<>>, <<"t","1">>, <<"1",",","1","t","1">> }

\* The list the loop of line 69 walks: the list object bound to patterns at
\* line 53.  add_field binds the field to another list object and leaves
\* this one as it was.
PatternAt(local, fp, name, i) == local[i]

InitConc ==
    /\ field_patterns \in
          {LayoutParser(<<[name |-> "f", patterns |-> l]>>) : l \in ConcLists}
    /\ text = <<>>
    /\ results = NotCalled
    /\ reader = NoReader
    /\ history = NoHistory
    /\ preprocessor = NoPreprocessor
    /\ request = NoRequest

\* Lines 52-53: results = {} and the iterator over field_patterns.items(),
\* which remembers the size of the dict.
BeginExtract ==
    /\ reader.pc = "idle"
    /\ \E t \in ConcTexts : text' = t
    /\ results' = NotCalled
    /\ reader' = [NoReader EXCEPT !.pc = "next", !.used = Len(field_patterns)]
    /\ history' = [versions |-> [n \in Keys(field_patterns) |-> {Get(field_patterns, n)}],
                   observed |-> <<>>, adds |-> 0]
    /\ UNCHANGED <<field_patterns, preprocessor, request>>

\* Line 53, the iterator's next item: RuntimeError ("dictionary changed size
\* during iteration") when the dict's size is not the remembered one, the end
\* of the loop and line 56 after the last item, else the item's current value.
NextItem ==
    /\ reader.pc = "next"
    /\ IF reader.used # Len(field_patterns)
       THEN /\ results' = [kind |-> "RuntimeError", val |-> EmptyDict]
            /\ reader' = NoReader
       ELSE IF reader.pos >= Len(field_patterns)
       THEN /\ results' = [kind |-> "dict", val |-> reader.partial]
            /\ reader' = NoReader
       ELSE /\ reader' = [reader EXCEPT
                            !.pc = "rules",
                            !.pos = reader.pos + 1,
                            !.name = field_patterns[reader.pos + 1].name,
                            !.patterns = field_patterns[reader.pos + 1].patterns,
                            !.i = 1,
                            !.tried = <<>>]
            /\ UNCHANGED results
    /\ UNCHANGED <<field_patterns, text, history, preprocessor, request>>

Observe(h, name, rules) ==
    [h EXCEPT !.observed =
        [n \in DOMAIN h.observed \cup {name} |->
            IF n = name THEN rules ELSE h.observed[n]]]

\* Lines 54-55 and 69-75: one rule of the current field's list is tried.
TryRule ==
    /\ reader.pc = "rules"
    /\ IF reader.i > Len(reader.patterns)
       THEN /\ reader' = [reader EXCEPT
                            !.pc = "next",
                            !.partial = Put(reader.partial, reader.name, NoneValue)]
            /\ history' = Observe(history, reader.name, reader.tried)
            /\ UNCHANGED results
       ELSE LET rule == PatternAt(reader.patterns, field_patterns, reader.name, reader.i)
                m == Search(rule, text)
                value == MatchValue(rule, m)
            IN  IF ~m.ok
                THEN /\ reader' = [reader EXCEPT !.i = reader.i + 1,
                                                  !.tried = Append(reader.tried, rule)]
                     /\ UNCHANGED <<results, history>>
                ELSE IF IsRaised(value)
                THEN /\ results' = [kind |-> value.kind, val |-> EmptyDict]
                     /\ reader' = NoReader
                     /\ UNCHANGED history
                ELSE /\ reader' = [reader EXCEPT
                                     !.pc = "next",
                                     !.partial = Put(reader.partial, reader.name, value)]
                     /\ history' = Observe(history, reader.name,
                                           Append(reader.tried, rule))
                     /\ UNCHANGED results
    /\ UNCHANGED <<field_patterns, text, preprocessor, request>>

\* add_field called by another thread while extract_fields runs.
ConcurrentAddField ==
    /\ reader.pc # "idle"
    /\ history.adds < MaxAdds
    /\ \E name \in Names, patterns \in ConcLists :
          /\ add_field(name, patterns)
          /\ history' = [history EXCEPT
                !.adds = history.adds + 1,
                !.versions =
                    [n \in DOMAIN history.versions \cup {name} |->
                        IF n = name
                        THEN (IF n \in DOMAIN history.versions
                              THEN history.versions[n] ELSE {}) \cup {patterns}
                        ELSE history.versions[n]]]
    /\ UNCHANGED <<text, results, reader, preprocessor, request>>

\* add_field between calls.
QuietAddField ==
    /\ reader.pc = "idle"
    /\ \E name \in Names, patterns \in ConcLists : add_field(name, patterns)
    /\ text' = <<>>
    /\ results' = NotCalled
    /\ history' = NoHistory
    /\ UNCHANGED <<reader, preprocessor, request>>

NextConc == BeginExtract \/ NextItem \/ TryRule \/ ConcurrentAddField \/ QuietAddField

SpecConc == InitConc /\ [][NextConc]_vars

\* ------------------------------------------- ImagePreprocessor.preprocess

MaxDim == 5    \* widths and heights 1..MaxDim, and the sizes below

\* Sizes on which h * (width / w) in floats is below the exact quotient,
\* and the sizes of scans.
SampleSizes ==
    { [kind |-> "image", w |-> 3, h |-> 15],
      [kind |-> "image", w |-> 49, h |-> 49],
      [kind |-> "image", w |-> 1600, h |-> 1200],
      [kind |-> "image", w |-> 1000, h |-> 1] }
SampleWidths == {49, 800}

Images == {[kind |-> "image", w |-> w, h |-> h] : w, h \in 1..MaxDim} \cup SampleSizes
\* resize_width: None (0 here, as falsy) or a width
Widths == 0..MaxDim \cup SampleWidths

\* preprocess, lines 45-75: the optional resize; the grayscale conversion,
\* blur and threshold that follow keep the size.
preprocess(resize_width, image) ==
    IF resize_width # 0 THEN Resize(image, resize_width) ELSE image

InitResize ==
    /\ field_patterns = LayoutParser(<<>>)
    /\ text = <<>>
    /\ results = NotCalled
    /\ reader = NoReader
    /\ history = NoHistory
    /\ preprocessor \in
          {[resize_width |-> W, input |-> NoImage, output |-> NoImage] : W \in Widths}
    /\ request = NoRequest

\* An image is handed to the preprocessor.
LoadImage ==
    /\ \E image \in Images :
          preprocessor' = [preprocessor EXCEPT !.input = image, !.output = NoImage]
    /\ UNCHANGED <<field_patterns, text, results, reader, history, request>>

Preprocess ==
    /\ preprocessor.input # NoImage
    /\ preprocessor.output = NoImage
    /\ preprocessor' =
          [preprocessor EXCEPT
              !.output = preprocess(preprocessor.resize_width, preprocessor.input)]
    /\ UNCHANGED <<field_patterns, text, results, reader, history, request>>

NextResize == LoadImage \/ Preprocess

SpecResize == InitResize /\ [][NextResize]_vars

\* ------------------------------------------------------- main.py /extract

\* preprocessor = ImagePreprocessor(resize_width=800)
resize_width == 800

\* Sizes of decoded uploads.
UploadSizes ==
    { [kind |-> "image", w |-> 800, h |-> 600],
      [kind |-> "image", w |-> 1600, h |-> 1200],
      [kind |-> "image", w |-> 1000, h |-> 1] }

ReceiptText ==
    <<"R","e","c","e","i","p","t",":"," ","#","9","8","7","6","\n",
      "D","a","t","e",":"," ","2","0","2","5","-","0","7","-","1","5","\n",
      "T","o","t","a","l",":"," ","$","1","2","3",",","4","5","\n",
      "C","h","a","n","g","e"," ","D","u","e",":"," ","$","5",".","0","0">>

\* Texts the recognition engine returns.
OcrTexts ==
    { ReceiptText,
      <<>>,
      <<"#","1","2","\n","1","5","/","0","7","/","2","0","2","5","\n",
        "T","O","T","A","L"," ","$"," ","1",",","2","3","4",".","5","6">>,
      <<"r","e","c","e","i","p","t"," ","7","\n","c","h","a","n","g","e",
        " ","1",".","0","0">>,
      <<"T","o","t","a","l"," ","o","f"," ","2"," ","$","3",",","5","0">>,
      <<"D","a","t","e",":"," ","2","0","2","5","/","7","/","1">>,
      <<"I","D",":"," ","4","2">>,
      <<"C","h","a","n","g","e",":"," ","0",",","5","0">> }

InitApp ==
    /\ field_patterns = LayoutParser(receipt_patterns)
    /\ text = <<>>
    /\ results = NotCalled
    /\ reader = NoReader
    /\ history = NoHistory
    /\ preprocessor = [resize_width |-> resize_width, input |-> NoImage, output |-> NoImage]
    /\ request = NoRequest

\* A file is posted to /extract: a name that ends in .pdf or another one.
Upload ==
    /\ request.pc \in {"idle", "done"}
    /\ \E pdf \in BOOLEAN : request' = [NoRequest EXCEPT !.pc = "read_image", !.pdf = pdf]
    /\ text' = <<>>
    /\ results' = NotCalled
    /\ preprocessor' = [preprocessor EXCEPT !.input = NoImage, !.output = NoImage]
    /\ UNCHANGED <<field_patterns, reader, history>>

\* What decoding the upload gives: an exception of the decoder, no page
\* (a PDF) or no image (cv2.imread returning None), or pixels.
DecodeOutcomes ==
    {[kind |-> "raises", w |-> 0, h |-> 0], [kind |-> "nothing", w |-> 0, h |-> 0]}
        \cup UploadSizes

\* read_image, lines 58-85: every failure is raised as HTTPException(400).
ReadImage ==
    /\ request.pc = "read_image"
    /\ \E got \in DecodeOutcomes :
          IF got.kind # "image"
          THEN request' = [request EXCEPT !.pc = "except", !.exc = "HTTPException(400)"]
          ELSE request' = [request EXCEPT !.pc = "preprocess", !.image = got]
    /\ UNCHANGED <<field_patterns, text, results, reader, history, preprocessor>>

\* Line 101: preprocessed = preprocessor.preprocess(image)
PreprocessUpload ==
    /\ request.pc = "preprocess"
    /\ LET out == preprocess(preprocessor.resize_width, request.image)
       IN  /\ preprocessor' = [preprocessor EXCEPT !.input = request.image, !.output = out]
           /\ request' =
                 IF out.kind = "image"
                 THEN [request EXCEPT !.pc = "extract_text",
                                      !.invoked = @ \cup {"preprocess"}]
                 ELSE [request EXCEPT !.pc = "except", !.exc = out.kind,
                                      !.invoked = @ \cup {"preprocess"}]
    /\ UNCHANGED <<field_patterns, text, results, reader, history>>

\* Line 102: text = ocr_engine.extract_text(preprocessed); the engine returns
\* a text or raises.
ExtractText ==
    /\ request.pc = "extract_text"
    /\ \/ /\ \E t \in OcrTexts : text' = t
          /\ request' = [request EXCEPT !.pc = "extract_fields",
                                        !.invoked = @ \cup {"extract_text"}]
       \/ /\ text' = text
          /\ request' = [request EXCEPT !.pc = "except", !.exc = "TesseractError",
                                        !.invoked = @ \cup {"extract_text"}]
    /\ UNCHANGED <<field_patterns, results, reader, history, preprocessor>>

\* Line 103: fields = parser.extract_fields(text)
ParseFields ==
    /\ request.pc = "extract_fields"
    /\ results' = extract_fields(field_patterns, text)
    /\ request' =
          IF IsRaised(results')
          THEN [request EXCEPT !.pc = "except", !.exc = results'.kind,
                               !.invoked = @ \cup {"extract_fields"}]
          ELSE [request EXCEPT !.pc = "respond",
                               !.invoked = @ \cup {"extract_fields"}]
    /\ UNCHANGED <<field_patterns, text, reader, history, preprocessor>>

\* Lines 105-109: the JSON response.
Respond ==
    /\ request.pc = "respond"
    /\ request' = [request EXCEPT !.pc = "done", !.status = 200]
    /\ UNCHANGED <<field_patterns, text, results, reader, history, preprocessor>>

\* Lines 110-111: except Exception catches whatever the try block raised,
\* the HTTPException of read_image included (HTTPException is an Exception),
\* and raises HTTPException(500) in its place.
HandleException ==
    /\ request.pc = "except"
    /\ request' = [request EXCEPT !.pc = "done", !.status = 500]
    /\ UNCHANGED <<field_patterns, text, results, reader, history, preprocessor>>

NextApp ==
    \/ Upload
    \/ ReadImage
    \/ PreprocessUpload
    \/ ExtractText
    \/ ParseFields
    \/ Respond
    \/ HandleException

SpecApp == InitApp /\ [][NextApp]_vars

\* ------------------------------------------------ claims on the parser

Called == results.kind # "idle"
Returned == results.kind = "dict"

\* The rules of a list that match the text, and the first of them.
Matching(ps, t) == {i \in DOMAIN ps : Search(ps[i], t).ok}
FirstMatching(ps, t) ==
    CHOOSE i \in Matching(ps, t) : \A j \in Matching(ps, t) : i <= j

\* C1: a field resolves to what the first rule of its list that matches the
\* text produces alone; rules after it do not change the result.
C1_FirstMatchWins ==
    Called =>
        \A k \in DOMAIN field_patterns :
            LET ps == field_patterns[k].patterns
            IN  Matching(ps, text) # {} =>
                    LET alone ==
                            extract_by_patterns(text, <<ps[FirstMatching(ps, text)]>>)
                    IN  /\ extract_by_patterns(text, ps) = alone
                        /\ Returned => results.val[field_patterns[k].name] = alone

\* Two rules of one list match the text, each alone gives another value, and
\* the call returned the first one's.
C1_Witness ==
    /\ Returned
    /\ \E k \in DOMAIN field_patterns :
          LET ps == field_patterns[k].patterns
          IN  /\ Len(ps) = 2
              /\ Matching(ps, text) = {1, 2}
              /\ extract_by_patterns(text, <<ps[1]>>)
                   # extract_by_patterns(text, <<ps[2]>>)
              /\ extract_by_patterns(text, <<ps[2]>>).kind = "str"
              /\ results.val[field_patterns[k].name]
                   = extract_by_patterns(text, <<ps[1]>>)

\* C2: the map extract_fields returns has exactly the schema's field names
\* as its keys, for every text, the empty one included.
C2_KeySet == Returned => DOMAIN results.val = Keys(field_patterns)

\* A call on the empty text after add_field added a second field.
C2_Witness ==
    /\ Returned
    /\ text = <<>>
    /\ Keys(field_patterns) = {"f", "total"}
    /\ DOMAIN results.val = {"f", "total"}

\* C3: a field whose rule list is empty, or none of whose rules matches the
\* text, is in the map and mapped to None, not to an empty string.
C3_Absent ==
    Called =>
        \A k \in DOMAIN field_patterns :
            LET ps == field_patterns[k].patterns
                name == field_patterns[k].name
            IN  Matching(ps, text) = {} =>
                    /\ extract_by_patterns(text, ps) = NoneValue
                    /\ Returned =>
                          /\ name \in DOMAIN results.val
                          /\ results.val[name] = NoneValue
                          /\ results.val[name] # Str(<<>>)

\* A returned map with a field of no rules and a field whose rules all fail.
C3_Witness ==
    /\ Returned
    /\ \E k \in DOMAIN field_patterns :
          /\ field_patterns[k].patterns = <<>>
          /\ results.val[field_patterns[k].name] = NoneValue
    /\ \E k \in DOMAIN field_patterns :
          /\ Len(field_patterns[k].patterns) = 2
          /\ Matching(field_patterns[k].patterns, text) = {}
          /\ results.val[field_patterns[k].name] = NoneValue

\* C4: when the winning rule has two groups the value is group 1 without its
\* "," separators, trimmed, then ".", then group 2 trimmed; when it has one
\* group the value is that group trimmed.
C4_Reassembly ==
    Called =>
        \A k \in DOMAIN field_patterns :
            LET ps == field_patterns[k].patterns
                name == field_patterns[k].name
            IN  Matching(ps, text) # {} =>
                    LET r == ps[FirstMatching(ps, text)]
                        g == Search(r, text).caps
                        value == extract_by_patterns(text, ps)
                    IN  /\ (r.ngroups = 2 /\ g[1].some /\ g[2].some) =>
                              /\ value.kind = "str"
                              /\ value.val = Strip(Remove(g[1].val, ","))
                                               \o <<".">> \o Strip(g[2].val)
                              /\ \A i \in 1..Len(Strip(Remove(g[1].val, ","))) :
                                    value.val[i] # ","
                        /\ (r.ngroups = 1 /\ g[1].some) =>
                              value = Str(Strip(g[1].val))
                        /\ (Returned /\ r.ngroups \in {1, 2}) =>
                              results.val[name] = value

\* Group 1 "1,234" and group 2 "56" of the winning two-group rule give
\* "1234.56".
C4_Witness ==
    /\ Returned
    /\ "f" \in DOMAIN results.val
    /\ text = <<"1",",","2","3","4","t","5","6">>
    /\ Get(field_patterns, "f") = <<RuleTwo>>
    /\ Search(RuleTwo, text).caps[1].val = <<"1",",","2","3","4">>
    /\ Search(RuleTwo, text).caps[2].val = <<"5","6">>
    /\ results.val["f"] = Str(<<"1","2","3","4",".","5","6">>)

\* C7: a rule with no capture group, or more than two, that wins for a field
\* never gives the field a string value.
C7_NoSilentValue ==
    Returned =>
        \A k \in DOMAIN field_patterns :
            LET ps == field_patterns[k].patterns
            IN  (/\ Matching(ps, text) # {}
                 /\ ps[FirstMatching(ps, text)].ngroups \notin {1, 2})
                => results.val[field_patterns[k].name].kind # "str"

\* C8: with rules of one or two groups only, extract_fields returns a map
\* and raises nothing, also when a group took no part in the match.
C8_NeverRaises ==
    (/\ Called
     /\ \A k \in DOMAIN field_patterns :
           \A i \in DOMAIN field_patterns[k].patterns :
               field_patterns[k].patterns[i].ngroups \in {1, 2})
    => Returned

\* ------------------------------------------ claims on concurrent mutation

IsPrefix(p, l) == Len(p) <= Len(l) /\ SubSeq(l, 1, Len(p)) = p

\* The rules a completed call tried for each field are the beginning of one
\* list the schema held for the field during the call, and the field's value
\* is that list's.
NoTornList ==
    (reader.pc = "idle" /\ Returned) =>
        \A n \in DOMAIN results.val :
            \E l \in history.versions[n] :
                /\ IsPrefix(history.observed[n], l)
                /\ results.val[n] = extract_by_patterns(text, l)

\* C5: an extract_fields call that add_field calls interleave with completes
\* and sees, for each field, one whole rule list, the old or the new one.
C5_SafeInterleaving ==
    (reader.pc = "idle" /\ Called) => (Returned /\ NoTornList)

\* ----------------------------------------------------- claims on the app

\* C6: a request whose upload could not be decoded ends with status 400,
\* and neither preprocess nor the engine nor extract_fields ran for it.
C6_DecodeFailureIs400 ==
    (request.pc = "done" /\ request.image = NoImage) =>
        /\ request.status = 400
        /\ request.invoked = {}

Field(s) == Str(s)

\* C9: the receipt text gives id 9876, date 2025-07-15, total 123.45 and
\* change 5.00 under the shipped receipt schema.
C9_ReceiptScenario ==
    (text = ReceiptText /\ Returned) =>
        /\ DOMAIN results.val = {"id", "date", "total", "change"}
        /\ results.val["id"] = Field(<<"9","8","7","6">>)
        /\ results.val["date"] = Field(<<"2","0","2","5","-","0","7","-","1","5">>)
        /\ results.val["total"] = Field(<<"1","2","3",".","4","5">>)
        /\ results.val["change"] = Field(<<"5",".","0","0">>)

\* ---------------------------------------------------- claims on the resize

\* C10: the resized image is exactly resize_width wide and its height is
\* h * resize_width / w rounded to the nearest integer (at most one half
\* away from the quotient).
C10_RoundedHeight ==
    LET in  == preprocessor.input
        out == preprocessor.output
        W   == preprocessor.resize_width
        off == 2 * in.w * out.h - 2 * in.h * W
    IN  (W > 0 /\ out.kind = "image") =>
            /\ out.w = W
            /\ off <= in.w
            /\ -off <= in.w

====
